---- MODULE Spec2Model ----
(***************************************************************************)
(* TMDB Movie Explorer (src/app.py): the cached TMDB lookups and the       *)
(* window adapter _fetch_window_by_ui_page that maps a 12-item display     *)
(* page onto TMDB's 20-item pages, driven by Streamlit script runs.        *)
(***************************************************************************)
EXTENDS Integers, Sequences, FiniteSets, TLC

VARIABLES
    sessionKey,   \* st.session_state["TMDB_V3_KEY"] ("" = not set)
    now,          \* wall clock, seconds
    ticks,        \* number of clock advances so far
    upTotal,      \* number of items TMDB currently lists for a query
    cache,        \* st.cache_data store: key -> entry
    pc,           \* position of the current script run
    runs,         \* number of script runs started
    q,            \* sidebar keyword input of the current run
    page,         \* sidebar page number input of the current run
    go,           \* "Start / Refresh" pressed for the current run
    page1,        \* result of the first listing lookup of the call
    page2,        \* result of the second listing lookup of the call
    total,        \* local total of _fetch_window_by_ui_page
    total_ui_pages, \* local total_ui_pages
    buf,          \* local buf
    need,         \* local need
    ret,          \* outcome of _fetch_window_by_ui_page in this run
    rendered,     \* what the Explore tab currently shows
    fetchLog,     \* listing lookups issued by the current call, in order
    reqs,         \* upstream listing requests sent by the current call
    used,         \* cache entries the current call read or wrote
    wrote,        \* cache entries the current call wrote
    lk,           \* record of the most recent cached lookup
    lastOk,       \* key -> time of the last successful lookup
    fetched,      \* key -> last successful upstream fetch (time, value)
    cur,          \* the last completed window call
    prev,         \* the completed window call before cur
    favorites,    \* st.session_state["favorites"]
    gotoPage,     \* st.session_state["_goto_page"] (0 = not set)
    clicked       \* the button whose click triggered the current run

vars == <<sessionKey, now, ticks, upTotal, cache, pc, runs, q, page,
          go, page1, page2, total, total_ui_pages, buf, need, ret, rendered,
          fetchLog, reqs, used, wrote, lk, lastOk, fetched, cur, prev,
          favorites, gotoPage, clicked>>

----------------------------------------------------------------------------
(* Bounds of the model *)
MaxTotal == 48
MaxUiPage == 4
MaxRuns == 3
MaxWindowRuns == 1
MaxTicks == 2

(* Program constants *)
UI_COLS == 3
UI_ROWS == 4
UI_PAGE_SIZE == UI_COLS * UI_ROWS
TMDB_PAGE_SIZE == 20
TTL_STATIC == 86400
TTL_LISTING == 600

Min(a, b) == IF a < b THEN a ELSE b
Max(a, b) == IF a > b THEN a ELSE b

None == [kind |-> "none"]

----------------------------------------------------------------------------
(* Inputs *)
KeyInputs == {"", " ", "k"}
Keywords == {"", "kw"}
Outcomes == {"ok", "http_error", "network_error"}

\* str.strip() on the strings the model enters
Strip(s) == IF s = " " THEN "" ELSE s

\* keyword=q.strip() if q.strip() else None
KeywordOf(s) == IF Strip(s) # "" THEN [kind |-> "kw", s |-> Strip(s)] ELSE None

----------------------------------------------------------------------------
(* Upstream listing service: a query lists upTotal items in pages of 20 *)
ListingName(kw) == IF kw.kind = "kw" THEN kw.s ELSE "discover"

Item(name, i) == <<name, i>>

PageLen(n, t) == Max(0, Min(TMDB_PAGE_SIZE, t - (n - 1) * TMDB_PAGE_SIZE))

\* what search_movies / discover_movies return for upstream page n
UpstreamPage(name, n, t) ==
    [results |-> [i \in 1..PageLen(n, t) |-> Item(name, (n - 1) * TMDB_PAGE_SIZE + i)],
     total |-> t, kind |-> "page"]

\* the value slot of a call that produced no value
NoPage == [results |-> <<>>, total |-> 0, kind |-> "none"]

----------------------------------------------------------------------------
(* st.cache_data: one entry per function and argument values *)
MaxApiPage == ((MaxUiPage - 1) * UI_PAGE_SIZE) \div TMDB_PAGE_SIZE + 2

ConfigKey == [fn |-> "get_config", query |-> "", page |-> 0]

ListKey(kw, n) ==
    [fn |-> IF kw.kind = "kw" THEN "search_movies" ELSE "discover_movies",
     query |-> IF kw.kind = "kw" THEN kw.s ELSE "",
     page |-> n]

CacheKeys ==
    {ConfigKey} \cup {ListKey(KeywordOf(s), n) : s \in Keywords, n \in 1..MaxApiPage}

\* the ttl= argument of the decorator of each cached function
TTL(k) == IF k.fn = "get_config" THEN TTL_STATIC ELSE TTL_LISTING

\* an entry that never expires
Fresh_NoExpiry(k) == cache[k].kind = "entry"

\* a cache that never hits
Fresh_Never(k) == FALSE

\* an entry is served only while now < expiry
Fresh(k) == cache[k].kind = "entry" /\ now < cache[k].exp

\* tmdb_get: the HTTP request and its outcome
TmdbGet(outcome, resp) ==
    IF sessionKey = ""
    THEN [ok |-> FALSE, req |-> 0, val |-> NoPage, err |-> "missing_key"]
    ELSE IF outcome = "ok"
         THEN [ok |-> TRUE, req |-> 1, val |-> resp, err |-> ""]
         ELSE [ok |-> FALSE, req |-> 1, val |-> NoPage, err |-> outcome]

\* a failed call leaving a placeholder entry behind
CachedCall_StoreOnError(k, outcome, resp) ==
    IF Fresh(k)
    THEN [ok |-> TRUE, req |-> 0, val |-> cache[k].val, err |-> "", cache |-> cache]
    ELSE LET r == TmdbGet(outcome, resp) IN
         [ok |-> r.ok, req |-> r.req, val |-> r.val, err |-> r.err,
          cache |-> [cache EXCEPT ![k] = [kind |-> "entry", val |-> r.val,
                                          exp |-> now + TTL(k)]]]

\* a call of a function decorated with st.cache_data(ttl=...)
CachedCall(k, outcome, resp) ==
    IF Fresh(k)
    THEN [ok |-> TRUE, req |-> 0, val |-> cache[k].val, err |-> "", cache |-> cache]
    ELSE LET r == TmdbGet(outcome, resp) IN
         [ok |-> r.ok, req |-> r.req, val |-> r.val, err |-> r.err,
          cache |-> IF r.ok
                    THEN [cache EXCEPT ![k] = [kind |-> "entry", val |-> r.val,
                                                exp |-> now + TTL(k)]]
                    ELSE cache]

\* history kept for the lookup claims: the lookup just made, the time of the
\* last successful lookup per key, the last successful upstream fetch per key
Record(k, r) ==
    /\ lk' = [kind |-> "lookup", key |-> k, t |-> now, ok |-> r.ok, req |-> r.req,
              val |-> r.val, err |-> r.err, priorOk |-> lastOk[k],
              priorFetch |-> fetched[k]]
    /\ lastOk' = IF r.ok THEN [lastOk EXCEPT ![k] = now] ELSE lastOk
    /\ fetched' = IF r.ok /\ r.req = 1
                  THEN [fetched EXCEPT ![k] = [kind |-> "fetch", t |-> now, val |-> r.val]]
                  ELSE fetched

\* history kept for the window claims: the entries a call read or wrote
Touch(k, r) ==
    /\ used' = IF r.ok /\ r.cache[k].kind = "entry"
               THEN used \cup {[key |-> k, exp |-> r.cache[k].exp]} ELSE used
    /\ wrote' = IF r.ok /\ r.req = 1 /\ r.cache[k].kind = "entry"
                THEN wrote \cup {[key |-> k, exp |-> r.cache[k].exp]} ELSE wrote

----------------------------------------------------------------------------
(* _fetch_window_by_ui_page arithmetic *)
StartGlobal(p) == (p - 1) * UI_PAGE_SIZE
ApiPage(p) == StartGlobal(p) \div TMDB_PAGE_SIZE + 1
\* the offset taken modulo the display page size
Offset_WrongModulus(p) == StartGlobal(p) % UI_PAGE_SIZE

Offset(p) == StartGlobal(p) % TMDB_PAGE_SIZE

\* Python s[a:b] for 0 <= a <= b
Slice(s, a, b) == SubSeq(s, Min(a, Len(s)) + 1, Min(b, Len(s)))

\* buf = page1[offset: offset + need] with need = UI_PAGE_SIZE (lines 218-219)
FirstSlice(results, p) == Slice(results, Offset(p), Offset(p) + UI_PAGE_SIZE)

\* one item too few taken from the second page
SecondSlice_DropOne(results, n) == Slice(results, 0, Min(n, Len(results)) - 1)

\* take2 = min(need, len(page2)); page2[:take2] (lines 228-229)
SecondSlice(results, n) == Slice(results, 0, Min(n, Len(results)))

\* the page asked of the second lookup (lines 225, 227)
\* the second lookup skipping a page
NextApiPage_Skip(p) == ApiPage(p) + 2

NextApiPage(p) == ApiPage(p) + 1

\* the failure swallowed
Raises_Swallowed(r) == FALSE

\* a failed lookup raises through _fetch_window_by_ui_page: no handler
\* surrounds the calls at lines 210, 212, 225, 227
Raises(r) == ~r.ok

\* max(1, math.ceil(total / UI_PAGE_SIZE))
\* floor division in place of math.ceil
TotalUiPages_Floor(t) == Max(1, t \div UI_PAGE_SIZE)

\* the floor of one page dropped
TotalUiPages_NoFloor(t) == (t + UI_PAGE_SIZE - 1) \div UI_PAGE_SIZE

TotalUiPages(t) == Max(1, (t + UI_PAGE_SIZE - 1) \div UI_PAGE_SIZE)

----------------------------------------------------------------------------
(* Buttons of the Explore and Favorites tabs *)
NoClick == [kind |-> "none", btn |-> "", mid |-> Item("", 0)]

PagerButtons == {"first", "prev", "next", "last"}

\* disabled=(page <= 1) for First and Prev, disabled=(page >= total_ui_pages)
\* for Next and Last (lines 325-334)
PagerEnabled(btn, p, t) ==
    IF btn \in {"first", "prev"} THEN ~(p <= 1) ELSE ~(p >= t)

\* the value stored in st.session_state["_goto_page"] (lines 326-335)
GotoTarget(btn, p, t) ==
    CASE btn = "first" -> 1
      [] btn = "prev" -> p - 1
      [] btn = "next" -> Min(t, p + 1)
      [] btn = "last" -> t

\* _fav_toggle (lines 234-240)
FavToggle(favs, mid) == IF mid \in favs THEN favs \ {mid} ELSE favs \cup {mid}

\* the buttons on screen: the cards and the pager follow a non-empty window
\* (lines 309-335), the Remove buttons follow the favorites (lines 343-365)
Displayed ==
    IF rendered.kind = "window" /\ rendered.items # <<>>
    THEN {[kind |-> "pager", btn |-> b, mid |-> Item("", 0)] :
             b \in {x \in PagerButtons :
                      PagerEnabled(x, rendered.page, rendered.total_ui_pages)}}
         \cup {[kind |-> "fav", btn |-> "", mid |-> rendered.items[i]] :
                  i \in 1..Len(rendered.items)}
         \cup {[kind |-> "rm", btn |-> "", mid |-> m] : m \in favorites}
    ELSE {}

----------------------------------------------------------------------------
Init ==
    /\ sessionKey = ""
    /\ now = 0
    /\ ticks = 0
    /\ upTotal \in 0..MaxTotal
    /\ cache = [k \in CacheKeys |-> None]
    /\ pc = "idle"
    /\ runs = 0
    /\ q = ""
    /\ page = 1
    /\ go = FALSE
    /\ page1 = NoPage
    /\ page2 = NoPage
    /\ total = 0
    /\ total_ui_pages = 0
    /\ buf = <<>>
    /\ need = 0
    /\ ret = None
    /\ rendered = None
    /\ fetchLog = <<>>
    /\ reqs = 0
    /\ used = {}
    /\ wrote = {}
    /\ lk = None
    /\ lastOk = [k \in CacheKeys |-> -1]
    /\ fetched = [k \in CacheKeys |-> None]
    /\ cur = None
    /\ prev = None
    /\ favorites = {}
    /\ gotoPage = 0
    /\ clicked = NoClick

env == <<now, ticks, upTotal>>
locals == <<page1, page2, total, total_ui_pages, buf, need, ret, fetchLog, reqs, used, wrote>>
inputs == <<q, page, go>>
hist == <<lk, lastOk, fetched>>
calls == <<cur, prev>>
session == <<favorites, gotoPage>>

\* A script run starts: the sidebar key input (lines 18-22) and the key gate
\* (lines 111-113); the locals of the previous run are gone.
ScriptStart(api_key) ==
    /\ pc = "idle"
    /\ runs' = runs + 1
    /\ sessionKey' = IF api_key # "" THEN Strip(api_key) ELSE sessionKey
    /\ page1' = NoPage /\ page2' = NoPage /\ total' = 0 /\ total_ui_pages' = 0
    /\ buf' = <<>> /\ need' = 0 /\ ret' = None /\ fetchLog' = <<>>
    /\ reqs' = 0 /\ used' = {} /\ wrote' = {}
    /\ IF sessionKey' = ""
       THEN pc' = "idle" /\ rendered' = [kind |-> "info"]
       ELSE pc' = "config" /\ rendered' = rendered
    /\ clicked' = NoClick
    /\ UNCHANGED <<env, cache, inputs, hist, calls, session>>

\* A click on a card, pager or Remove button reruns the script; the sidebar
\* widgets keep their values, so the key passes the gate again.
Click(w) ==
    /\ pc = "idle"
    /\ w \in Displayed
    /\ runs' = runs + 1
    /\ page1' = NoPage /\ page2' = NoPage /\ total' = 0 /\ total_ui_pages' = 0
    /\ buf' = <<>> /\ need' = 0 /\ ret' = None /\ fetchLog' = <<>>
    /\ reqs' = 0 /\ used' = {} /\ wrote' = {}
    /\ IF sessionKey = ""
       THEN pc' = "idle" /\ rendered' = [kind |-> "info"] /\ clicked' = NoClick
       ELSE pc' = "config" /\ rendered' = rendered /\ clicked' = w
    /\ UNCHANGED <<sessionKey, env, cache, inputs, hist, calls, session>>

\* quick validation get_config() (lines 116-123), the sidebar query widgets
\* (lines 131, 178, 179) and the go gate (lines 280-282)
ValidateKey(outcome, kwInput, p, g) ==
    /\ pc = "config"
    /\ clicked.kind # "none" => ~g
    /\ LET r == CachedCall(ConfigKey, outcome, [cfg |-> "images", kind |-> "config"]) IN
       /\ cache' = r.cache
       /\ Record(ConfigKey, r)
       /\ IF ~r.ok
          THEN pc' = "idle" /\ rendered' = [kind |-> "error"] /\ UNCHANGED inputs
          ELSE IF ~g
               THEN /\ pc' = "idle" /\ rendered' = [kind |-> "warning"]
                    /\ go' = FALSE /\ UNCHANGED <<q, page>>
               ELSE /\ pc' = "page1" /\ rendered' = rendered
                    /\ go' = TRUE /\ q' = kwInput /\ page' = p
    /\ clicked' = IF pc' = "idle" THEN NoClick ELSE clicked
    /\ UNCHANGED <<sessionKey, env, runs, locals, calls, session>>

\* lines 204-220: the first listing lookup, totals and the first slice
FetchFirst(outcome) ==
    /\ pc = "page1"
    /\ LET kw == KeywordOf(q)
           k == ListKey(kw, ApiPage(page))
           r == CachedCall(k, outcome, UpstreamPage(ListingName(kw), ApiPage(page), upTotal))
       IN
       /\ cache' = r.cache
       /\ Record(k, r)
       /\ fetchLog' = Append(fetchLog, ApiPage(page))
       /\ reqs' = reqs + r.req
       /\ Touch(k, r)
       /\ IF ~Raises(r)
          THEN /\ page1' = r.val
               /\ total' = r.val.total
               /\ total_ui_pages' = TotalUiPages(r.val.total)
               /\ buf' = FirstSlice(r.val.results, page)
               /\ need' = UI_PAGE_SIZE - Len(buf')
               /\ pc' = IF need' > 0 THEN "page2" ELSE "return"
               /\ ret' = ret
          ELSE /\ ret' = [kind |-> "raise", err |-> r.err]
               /\ pc' = "raised"
               /\ UNCHANGED <<page1, total, total_ui_pages, buf, need>>
    /\ UNCHANGED <<sessionKey, env, runs, inputs, page2, rendered, calls, session,
                   clicked>>

\* lines 222-229: the second listing lookup and the stitch
FetchSecond(outcome) ==
    /\ pc = "page2"
    /\ LET kw == KeywordOf(q)
           k == ListKey(kw, NextApiPage(page))
           r == CachedCall(k, outcome, UpstreamPage(ListingName(kw), NextApiPage(page), upTotal))
       IN
       /\ cache' = r.cache
       /\ Record(k, r)
       /\ fetchLog' = Append(fetchLog, NextApiPage(page))
       /\ reqs' = reqs + r.req
       /\ Touch(k, r)
       /\ IF ~Raises(r)
          THEN /\ page2' = r.val
               /\ buf' = buf \o SecondSlice(r.val.results, need)
               /\ pc' = "return"
               /\ ret' = ret
          ELSE /\ ret' = [kind |-> "raise", err |-> r.err]
               /\ pc' = "raised"
               /\ UNCHANGED <<page2, buf>>
    /\ UNCHANGED <<sessionKey, env, runs, inputs, page1, total, total_ui_pages,
                   need, rendered, calls, session, clicked>>

\* line 231 and lines 299-365: the call returns, the window is shown, and
\* the button that triggered the run, once reached, is served and reruns
Render ==
    /\ pc = "return"
    /\ ret' = [kind |-> "ok", items |-> buf, total |-> total,
               total_ui_pages |-> total_ui_pages]
    /\ rendered' = [kind |-> "window", page |-> page, items |-> buf,
                    total |-> total, total_ui_pages |-> total_ui_pages]
    /\ prev' = cur
    /\ cur' = [kind |-> "call", page |-> page, keyword |-> KeywordOf(q),
               res |-> ret', reqs |-> reqs, used |-> used, wrote |-> wrote,
               tEnd |-> now]
    /\ LET onCard == clicked.kind = "fav" /\ \E i \in 1..Len(buf) : buf[i] = clicked.mid
           onPager == clicked.kind = "pager"
                      /\ PagerEnabled(clicked.btn, page, total_ui_pages)
           onRemove == clicked.kind = "rm" /\ clicked.mid \in favorites
       IN
       IF buf = <<>>
       THEN pc' = "idle" /\ UNCHANGED session
       ELSE IF onCard
       THEN pc' = "config" /\ favorites' = FavToggle(favorites, clicked.mid)
            /\ UNCHANGED gotoPage
       ELSE IF onPager
       THEN pc' = "config" /\ UNCHANGED favorites
            /\ gotoPage' = GotoTarget(clicked.btn, page, total_ui_pages)
       ELSE IF onRemove
       THEN pc' = "config" /\ favorites' = favorites \ {clicked.mid} /\ gotoPage' = 0
       ELSE pc' = "idle" /\ gotoPage' = 0 /\ UNCHANGED favorites
    /\ clicked' = NoClick
    /\ UNCHANGED <<sessionKey, env, cache, runs, inputs, page1, page2, total,
                   total_ui_pages, buf, need, fetchLog, reqs, used, wrote, hist>>

\* the exception of a failed lookup leaves _fetch_window_by_ui_page and the
\* script (no handler around lines 298-304): nothing is rendered from buf
Uncaught ==
    /\ pc = "raised"
    /\ rendered' = [kind |-> "exception", err |-> ret.err]
    /\ pc' = "idle"
    /\ clicked' = NoClick
    /\ UNCHANGED <<sessionKey, env, cache, runs, inputs, locals, hist, calls, session>>

\* time passes between script runs: the clock moves in front of the first
\* lookup of a run
Tick(d) ==
    /\ pc = "config"
    /\ now' = now + d
    /\ ticks' = ticks + 1
    /\ UNCHANGED <<sessionKey, upTotal, cache, pc, runs, inputs, locals,
                   rendered, hist, calls, session, clicked>>

\* the upstream listing changes; it is read only by the listing lookups
Drift(t) ==
    /\ pc \in {"page1", "page2"}
    /\ t # upTotal
    /\ upTotal' = t
    /\ UNCHANGED <<sessionKey, now, ticks, cache, pc, runs, inputs, locals,
                   rendered, hist, calls, session, clicked>>

TickSteps == {TTL_LISTING \div 2, TTL_STATIC}
DriftTotals == {0}
CacheTotals == {TMDB_PAGE_SIZE + 5}
CacheKeywords == {"kw"}
CachePages == {1, 2}

\* one cold script run after another over every listing size
NextWindow ==
    \/ \E api_key \in KeyInputs : runs < MaxWindowRuns /\ ScriptStart(api_key)
    \/ \E outcome \in Outcomes, kwInput \in Keywords, p \in 1..MaxUiPage, g \in BOOLEAN :
          ValidateKey(outcome, kwInput, p, g)
    \/ \E outcome \in Outcomes : FetchFirst(outcome)
    \/ \E outcome \in Outcomes : FetchSecond(outcome)
    \/ Render
    \/ Uncaught

SpecWindow == Init /\ [][NextWindow]_vars

\* several script runs with the clock and the upstream listing moving
InitCache == Init /\ upTotal \in CacheTotals

Next ==
    \/ \E api_key \in KeyInputs : runs < MaxRuns /\ ScriptStart(api_key)
    \/ \E outcome \in Outcomes, kwInput \in CacheKeywords, p \in CachePages, g \in BOOLEAN :
          ValidateKey(outcome, kwInput, p, g)
    \/ \E outcome \in Outcomes : FetchFirst(outcome)
    \/ \E outcome \in Outcomes : FetchSecond(outcome)
    \/ Render
    \/ Uncaught
    \/ \E d \in TickSteps : ticks < MaxTicks /\ Tick(d)
    \/ \E t \in DriftTotals : Drift(t)

Spec == InitCache /\ [][Next]_vars

\* script runs started from the sidebar or by a button on screen
InitUi == Init /\ upTotal \in CacheTotals

NextUi ==
    \/ \E api_key \in KeyInputs : runs < MaxRuns /\ ScriptStart(api_key)
    \/ \E w \in Displayed : runs < MaxRuns /\ Click(w)
    \/ \E outcome \in Outcomes, kwInput \in CacheKeywords, p \in 1..MaxUiPage, g \in BOOLEAN :
          ValidateKey(outcome, kwInput, p, g)
    \/ \E outcome \in Outcomes : FetchFirst(outcome)
    \/ \E outcome \in Outcomes : FetchSecond(outcome)
    \/ Render
    \/ Uncaught

SpecUi == InitUi /\ [][NextUi]_vars

----------------------------------------------------------------------------
(* Properties of the window adapter, checked under SpecWindow *)

\* the listing the call of this run asks for
CallName == ListingName(KeywordOf(q))
Returned == ret.kind = "ok"

\* C1: a returned window has at most 12 items, and exactly 12 whenever at
\* least 12 items of the listing remain from the window's first position.
C1_WindowLength ==
    Returned =>
        /\ Len(ret.items) <= 12
        /\ (upTotal - (page - 1) * 12 >= 12 => Len(ret.items) = 12)

C1_Witness ==
    /\ Returned
    /\ page = 2
    /\ Len(fetchLog) = 2
    /\ Len(ret.items) = 12

\* C2: a returned window holds, in order, the items at global positions
\* (p-1)*12+1 .. min((p-1)*12+12, totalItems) of the upstream listing.
C2_WindowContent ==
    Returned =>
        LET first == (page - 1) * 12
            n == Max(0, Min(12, upTotal - first))
        IN ret.items = [i \in 1..n |-> Item(CallName, first + i)]

C2_Witness ==
    /\ Returned
    /\ page = 2
    /\ upTotal >= 24
    /\ ret.items[8] = Item(CallName, 20)
    /\ ret.items[9] = Item(CallName, 21)
    /\ ret.items[12] = Item(CallName, 24)

\* C3: the returned total is the first page's total, and the returned page
\* count is the least k >= 1 with 12*k >= total.
C3_TotalUiPages ==
    Returned =>
        /\ ret.total = page1.total
        /\ ret.total >= 0
        /\ ret.total_ui_pages >= 1
        /\ 12 * ret.total_ui_pages >= ret.total
        /\ (ret.total_ui_pages > 1 => 12 * (ret.total_ui_pages - 1) < ret.total)

C3_Witness ==
    /\ Returned
    /\ ret.total = 25
    /\ ret.total_ui_pages = 3

\* C7: a call issues at most two listing lookups, for upstream pages n and
\* n+1 with n = floor((p-1)*12/20)+1, the second only once the first has
\* returned its page.
C7_TwoSequentialFetches ==
    LET n == ((page - 1) * 12) \div 20 + 1 IN
    /\ Len(fetchLog) <= 2
    /\ reqs <= Len(fetchLog)
    /\ (Len(fetchLog) >= 1 => fetchLog[1] = n)
    /\ (Len(fetchLog) = 2 => fetchLog[2] = n + 1 /\ page1.kind = "page")
    /\ (pc = "page2" => Len(fetchLog) = 1 /\ page1.kind = "page")

C7_Witness ==
    /\ Returned
    /\ page = 4
    /\ fetchLog = <<2, 3>>
    /\ reqs = 2

\* C9: for a display page beyond the last one the call raises nothing of its
\* own and returns no items with the page count still max(1, ceil(total/12));
\* an empty listing gives ([], 0, 1).
C9_BeyondLastPage ==
    (pc = "idle" /\ ret.kind # "none" /\ (page - 1) * 12 >= upTotal) =>
        /\ (ret.kind = "raise" => lk.req = 1 /\ ret.err \in {"http_error", "network_error"})
        /\ (Returned =>
              /\ ret.items = <<>>
              /\ ret.total = upTotal
              /\ ret.total_ui_pages = IF upTotal = 0 THEN 1 ELSE (upTotal + 11) \div 12
              /\ (upTotal = 0 => ret.total = 0 /\ ret.total_ui_pages = 1))

C9_Witness ==
    /\ Returned
    /\ page = 4
    /\ upTotal = 30
    /\ ret.items = <<>>
    /\ ret.total_ui_pages = 3

\* C10: the second lookup is issued only when the first slice is short and
\* the listing goes on beyond upstream page n.
C10_SecondFetchOnlyAtBoundary ==
    Len(fetchLog) = 2 =>
        /\ need > 0
        /\ ApiPage(page) * TMDB_PAGE_SIZE < page1.total

----------------------------------------------------------------------------
(* Properties of the cached lookups, checked under Spec *)

LookupStep == pc \in {"config", "page1", "page2"} /\ pc' # pc
ListingStep == pc \in {"page1", "page2"} /\ pc' # pc

\* C4 as stated: a lookup made less than the TTL after any earlier successful
\* lookup of the same key is served from the cache without a request; any
\* other lookup sends one request and stores its result until now + TTL.
C4_HitAfterAnyCall ==
    lk.kind = "lookup" =>
        IF lk.priorOk >= 0 /\ lk.t - lk.priorOk < TTL(lk.key)
        THEN lk.ok /\ lk.req = 0 /\ lk.val = lk.priorFetch.val
        ELSE /\ lk.req = 1
             /\ (lk.ok => cache[lk.key] = [kind |-> "entry", val |-> lk.val,
                                           exp |-> lk.t + TTL(lk.key)])

\* C4 amended: a lookup made less than the TTL after the last successful
\* upstream fetch of the same key is served the value of that fetch without a
\* request; any other lookup sends exactly one request and, on success,
\* stores and returns its result with expiry now + TTL.
C4_HitAfterFetch ==
    lk.kind = "lookup" =>
        IF lk.priorFetch.kind = "fetch" /\ lk.t - lk.priorFetch.t < TTL(lk.key)
        THEN lk.ok /\ lk.req = 0 /\ lk.val = lk.priorFetch.val
        ELSE /\ lk.req = 1
             /\ (lk.ok => cache[lk.key] = [kind |-> "entry", val |-> lk.val,
                                           exp |-> lk.t + TTL(lk.key)])

C4_Witness ==
    /\ lk.kind = "lookup"
    /\ lk.key.fn = "search_movies"
    /\ lk.priorFetch.kind = "fetch"
    /\ lk.t > lk.priorFetch.t
    /\ lk.t - lk.priorFetch.t < TTL(lk.key)
    /\ lk.req = 0
    /\ lk.val.total # upTotal

BothCalls == cur.kind = "call" /\ prev.kind = "call"
SameArguments == cur.page = prev.page /\ cur.keyword = prev.keyword

\* C5 as stated: a second call with the same arguments, made while the
\* entries the first call wrote are fresh, returns the same result and sends
\* no request.
C5_FreshWritten ==
    (BothCalls /\ SameArguments /\ \A w \in prev.wrote : cur.tEnd < w.exp) =>
        cur.res = prev.res /\ cur.reqs = 0

\* C5 amended: a second call with the same arguments, made while the entries
\* the first call read or wrote are fresh, returns the same result and sends
\* no request.
C5_FreshUsed ==
    (BothCalls /\ SameArguments /\ \A u \in prev.used : cur.tEnd < u.exp) =>
        cur.res = prev.res /\ cur.reqs = 0

C5_Witness ==
    /\ BothCalls
    /\ SameArguments
    /\ Cardinality(prev.used) = 2
    /\ \A u \in prev.used : cur.tEnd < u.exp
    /\ cur.tEnd > prev.tEnd
    /\ cur.reqs = 0
    /\ Len(cur.res.items) = 12
    /\ upTotal # cur.res.total

\* C6: a failed lookup leaves every cache entry as it was, leaves no fresh
\* entry for its key, and hands its failure to the caller.
C6_FailureLeavesCache ==
    [][(LookupStep /\ ~lk'.ok) =>
          /\ cache' = cache
          /\ lk'.err \in {"http_error", "network_error"}
          /\ ~(cache'[lk'.key].kind = "entry" /\ now' < cache'[lk'.key].exp)
          /\ IF lk'.key = ConfigKey
             THEN pc' = "idle" /\ rendered'.kind = "error"
             ELSE pc' = "raised" /\ ret' = [kind |-> "raise", err |-> lk'.err]]_vars

C6_Witness ==
    /\ lk.kind = "lookup"
    /\ ~lk.ok
    /\ lk.err = "http_error"
    /\ lk.key.page = 2
    /\ cache[lk.key].kind = "none"
    /\ cache[ListKey(KeywordOf(q), 1)].kind = "entry"
    /\ pc = "raised"

\* C8: a failed listing lookup aborts the call with the failure as its
\* outcome, and the aborted run shows no window.
C8_AbortNoPartial ==
    [][/\ (ListingStep /\ ~lk'.ok) =>
              pc' = "raised" /\ ret'.kind = "raise" /\ rendered' = rendered
       /\ pc = "raised" => ret' = ret /\ rendered'.kind = "exception"]_vars

C8_Witness ==
    /\ pc = "raised"
    /\ Len(fetchLog) = 2
    /\ Len(buf) = 8
    /\ rendered.kind = "window"

----------------------------------------------------------------------------
(* Properties of the buttons of the Explore tab, checked under SpecUi *)

\* a script run ends: the script has stopped or gone through its last line
RunEnds == pc # "idle" /\ pc' = "idle"

\* the run that ends was triggered by a button of this kind and its key
\* validation was answered
ServedClick(kind) == RunEnds /\ clicked.kind = kind /\ lk'.kind = "lookup" /\ lk'.ok

\* C11: a pager button is only available inside its range (First and Prev
\* when the page is above 1, Next and Last when it is below the number of
\* pages), and the run triggered by its click ends showing the window of
\* page 1, p - 1, min(T, p + 1) or T respectively, p and T being the page and
\* the number of pages of the window the button was clicked on.
C11_PagerNavigates ==
    [][/\ (clicked.kind = "none" /\ clicked'.kind = "pager") =>
             IF clicked'.btn \in {"first", "prev"}
             THEN rendered.page > 1
             ELSE rendered.page < rendered.total_ui_pages
       /\ ServedClick("pager") =>
             /\ rendered'.kind = "window"
             /\ rendered'.page =
                  CASE clicked.btn = "first" -> 1
                    [] clicked.btn = "prev" -> rendered.page - 1
                    [] clicked.btn = "next" ->
                         Min(rendered.total_ui_pages, rendered.page + 1)
                    [] clicked.btn = "last" -> rendered.total_ui_pages]_vars

\* C12: the run triggered by a click on the favorite toggle of a movie ends
\* with the membership of that movie in the favorites set flipped and that
\* of every other movie unchanged, and no step other than one serving a
\* toggle or a Remove button changes the set.
C12_ToggleFlipsMembership ==
    [][/\ ServedClick("fav") =>
             /\ (clicked.mid \in favorites') <=> (clicked.mid \notin favorites)
             /\ favorites' \ {clicked.mid} = favorites \ {clicked.mid}
       /\ favorites' # favorites => clicked.kind \in {"fav", "rm"}]_vars

====
